---- MODULE Spec2Model ----
(***************************************************************************)
(* Timer engine of the TimersScreen component (src/unnamed/part_000):      *)
(* the React state `timers`, the one-second tick, the single-timer and     *)
(* category actions, creation, the AsyncStorage copies of the timer list   *)
(* and of the history log.                                                 *)
(***************************************************************************)
EXTENDS Integers, Sequences, FiniteSets, TLC

(***************************************************************************)
(* Bounds of the model.                                                    *)
(***************************************************************************)
\* values Date.now() runs through: 0..MaxNow
MaxNow == 1
\* largest digit typed into the duration field
MaxDigit == 3
\* timers in one snapshot, setItem('timers') requests in flight, history
\* entries stored or being stored, and relaunches, per specification
EngineTimers == 2
EngineInflight == 1
EngineHistory == 2
FormTimers == 1
FormInflight == 1
FormHistory == 1
StoreTimers == 1
StoreInflight == 2
StoreHistory == 1
StoreRestarts == 1
LogTimers == 2
LogInflight == 1
LogHistory == 2
StepsTimers == 2
StepsInflight == 1
StepsHistory == 2

(***************************************************************************)
(* JavaScript values.  A number is a record so that NaN (parseInt of a     *)
(* text without digits) and null (what JSON.stringify makes of NaN) keep   *)
(* their own arithmetic.                                                   *)
(***************************************************************************)
Num(n) == [k |-> "num", v |-> n]
NaN == [k |-> "nan", v |-> 0]
Null == [k |-> "null", v |-> 0]

\* ToNumber: null converts to 0, NaN stays NaN
ToNumber(x) == IF x.k = "null" THEN Num(0) ELSE x

\* x - n
JsMinus(x, n) == IF ToNumber(x).k = "nan" THEN NaN ELSE Num(ToNumber(x).v - n)

\* x <= n, false when x is NaN
JsLeInt(x, n) == ToNumber(x).k = "num" /\ ToNumber(x).v <= n

\* x < y / 2
JsLtHalf(x, y) ==
    /\ ToNumber(x).k = "num"
    /\ ToNumber(y).k = "num"
    /\ 2 * ToNumber(x).v < ToNumber(y).v

\* x <= y / 2, false when either side is NaN
JsLeHalf(x, y) ==
    /\ ToNumber(x).k = "num"
    /\ ToNumber(y).k = "num"
    /\ 2 * ToNumber(x).v <= ToNumber(y).v

\* the characters of the form's text fields
DigitChars == <<"0", "1", "2", "3", "4", "5", "6", "7", "8", "9">>

IsDigit(c) == \E i \in 1..10 : DigitChars[i] = c

DigitVal(c) == (CHOOSE i \in 1..10 : DigitChars[i] = c) - 1

RECURSIVE DigitsPrefix(_, _)
\* value of the longest prefix of digits of s, started from acc;
\* -1 when acc is -1 (no digit read yet) and s starts with no digit
DigitsPrefix(s, acc) ==
    IF s = <<>> \/ ~IsDigit(Head(s))
    THEN acc
    ELSE DigitsPrefix(Tail(s), (IF acc < 0 THEN 0 ELSE acc) * 10 + DigitVal(Head(s)))

\* parseInt(text, 10): optional sign, then decimal digits, the rest ignored
parseInt(s) ==
    LET neg == s # <<>> /\ Head(s) = "-"
        body == IF s # <<>> /\ Head(s) \in {"-", "+"} THEN Tail(s) ELSE s
        n == DigitsPrefix(body, -1)
    IN  IF n < 0 THEN NaN ELSE Num(IF neg THEN 0 - n ELSE n)

\* the texts typed into the form
Names == {"", "n"}
Categories == {"", "A", "B", "constructor"}
DurationTexts ==
    {<<>>, <<"a">>, <<"-", "1">>}
    \cup {<<DigitChars[d + 1]>> : d \in 0..MaxDigit}
    \cup {<<DigitChars[d + 1], "a">> : d \in MaxDigit..MaxDigit}

Actions == {"start", "pause", "reset"}

(***************************************************************************)
(* State.                                                                  *)
(***************************************************************************)
VARIABLES
    timers,     \* the React state `timers`: the latest committed snapshot
    rendered,   \* the `timers` the handlers of the last render closed over
    now,        \* what Date.now() returns
    events,     \* the alerts and completion calls of the latest step
    stored,     \* AsyncStorage item 'timers'
    writes,     \* setItem('timers', ...) requests in flight, in request order
    lastReq,    \* the latest saveTimers request, how it ended, and whether the
                \* write that finished last failed
    loadPc,     \* loadTimers: "get", "got" or "done"
    loadBuf,    \* what loadTimers' getItem returned
    history,    \* AsyncStorage item 'timerHistory'
    handlers,   \* handleTimerComplete calls in flight, in call order
    recorded,   \* entries of the handleTimerComplete calls whose setItem succeeded
    runs,       \* per position: completion calls and halfway alerts since the timer's last reset
    restarts    \* relaunches so far

vars == <<timers, rendered, now, events, stored, writes, lastReq, loadPc, loadBuf,
          history, handlers, recorded, runs, restarts>>

NoItem == [present |-> FALSE, val |-> <<>>]
Item(v) == [present |-> TRUE, val |-> v]

\* `timer.halfwayAlertTriggered` read as a condition: undefined is falsy
Triggered(timer) ==
    "halfwayAlertTriggered" \in DOMAIN timer /\ timer.halfwayAlertTriggered

\* { ...timer, halfwayAlertTriggered: b }
WithTriggered(timer, b) ==
    [f \in DOMAIN timer \cup {"halfwayAlertTriggered"} |->
        IF f = "halfwayAlertTriggered" THEN b ELSE timer[f]]

MapSeq(Op(_), s) == [i \in 1..Len(s) |-> Op(s[i])]

Remove(s, i) == [j \in 1..(Len(s) - 1) |-> IF j < i THEN s[j] ELSE s[j + 1]]

(***************************************************************************)
(* JSON.stringify / JSON.parse of the timer list: NaN is written as null,  *)
(* an undefined halfwayAlertTriggered is left out.                         *)
(***************************************************************************)
StringifyNumber(x) == IF x.k = "nan" THEN Null ELSE x

StringifyTimer(timer) ==
    [timer EXCEPT !.duration = StringifyNumber(timer.duration),
                  !.remainingTime = StringifyNumber(timer.remainingTime)]

Stringify(ts) == MapSeq(StringifyTimer, ts)

ParseTimer(json) == [f \in DOMAIN json |-> json[f]]

Parse(blob) == MapSeq(ParseTimer, blob)

(***************************************************************************)
(* Initial state: the component has mounted with no timers, loadTimers has *)
(* been called and its getItem is in flight, storage is empty.             *)
(***************************************************************************)
NoRun == [c |-> 0, h |-> 0]

Init ==
    /\ timers = <<>>
    /\ rendered = <<>>
    /\ now = 0
    /\ events = {}
    /\ stored = NoItem
    /\ writes = <<>>
    /\ lastReq = [st |-> "none", val |-> <<>>, unsynced |-> FALSE]
    /\ loadPc = "get"
    /\ loadBuf = NoItem
    /\ history = NoItem
    /\ handlers = <<>>
    /\ recorded = <<>>
    /\ runs = <<>>
    /\ restarts = 0

(***************************************************************************)
(* When the next event is handled: in a specification that has AsyncStorage *)
(* answer the requests for an item before the next event, no such request  *)
(* is waiting.                                                             *)
(***************************************************************************)
Ready(b) ==
    /\ b.saveFirst => writes = <<>>
    /\ b.logFirst => handlers = <<>>

(***************************************************************************)
(* saveTimers(updatedTimers): one setItem request, not awaited by anyone.  *)
(***************************************************************************)
\* saveTimers handed the `timers` of the render instead of updatedTimers
saveTimersRendered(updatedTimers, b) ==
    /\ Len(writes) < b.inflight
    /\ writes' = Append(writes, Stringify(rendered))
    /\ lastReq' = IF b.trackReq
                  THEN [lastReq EXCEPT !.st = "inflight", !.val = Stringify(rendered)]
                  ELSE lastReq

saveTimers(updatedTimers, b) ==
    /\ Len(writes) < b.inflight
    /\ writes' = Append(writes, Stringify(updatedTimers))
    /\ lastReq' = IF b.trackReq
                  THEN [lastReq EXCEPT !.st = "inflight",
                                       !.val = Stringify(updatedTimers)]
                  ELSE lastReq

(***************************************************************************)
(* The tick: the updater the interval passes to setTimers.                 *)
(***************************************************************************)
newRemainingTime(timer) == JsMinus(timer.remainingTime, 1)

Completes(timer) ==
    timer.status = "running" /\ JsLeInt(newRemainingTime(timer), 0)

\* the halfway branch tested before the completion branch
HalfwayFirst(timer) ==
    /\ timer.status = "running"
    /\ timer.halfwayAlert
    /\ ~Triggered(timer)
    /\ JsLeHalf(newRemainingTime(timer), timer.duration)

Halfway(timer) ==
    /\ timer.status = "running"
    /\ ~JsLeInt(newRemainingTime(timer), 0)
    /\ timer.halfwayAlert
    /\ ~Triggered(timer)
    /\ JsLeHalf(newRemainingTime(timer), timer.duration)

\* the tick skipping only the idle and completed timers
tickTimerPaused(timer) ==
    IF timer.status \in {"idle", "completed"} THEN timer
    ELSE [timer EXCEPT !.remainingTime = newRemainingTime(timer)]

\* the tick completing a timer without setting remainingTime to 0
tickTimerKeep(timer) ==
    IF timer.status # "running" THEN timer
    ELSE IF JsLeInt(newRemainingTime(timer), 0)
    THEN [timer EXCEPT !.remainingTime = newRemainingTime(timer), !.status = "completed"]
    ELSE [timer EXCEPT !.remainingTime = newRemainingTime(timer)]

tickTimer(timer) ==
    IF timer.status # "running" THEN timer
    ELSE IF JsLeInt(newRemainingTime(timer), 0)
    THEN [timer EXCEPT !.remainingTime = Num(0), !.status = "completed"]
    ELSE IF /\ timer.halfwayAlert
            /\ ~Triggered(timer)
            /\ JsLeHalf(newRemainingTime(timer), timer.duration)
    THEN WithTriggered([timer EXCEPT !.remainingTime = newRemainingTime(timer)], TRUE)
    ELSE [timer EXCEPT !.remainingTime = newRemainingTime(timer)]

\* the history entry handleTimerComplete builds from the timer
historyEntry(timer, date) ==
    [timerId |-> timer.id, name |-> timer.name, category |-> timer.category,
     completedAt |-> ToString(date)]

\* the positions, in order, of the timers of ts that satisfy P
RECURSIVE Positions(_, _, _)
Positions(P(_), ts, i) ==
    IF i > Len(ts) THEN <<>>
    ELSE (IF P(ts[i]) THEN <<i>> ELSE <<>>) \o Positions(P, ts, i + 1)

Bump(n) == IF n < 2 THEN n + 1 ELSE 2

\* Date.now() and new Date(): the clock does not run backwards
Clock(date) == date \in now..MaxNow

\* the step just taken and the snapshot it read, kept for the properties
Step(b, e) == IF b.trackSteps THEN {e} ELSE {}

Tick(b) ==
    LET done == Positions(Completes, timers, 1)
        half == Positions(Halfway, timers, 1)
    IN  /\ Ready(b)
        /\ Len(recorded) + Len(handlers) + Len(done) <= b.history
        /\ timers' = MapSeq(tickTimer, timers)
        /\ events' = {[type |-> "complete", at |-> done[j]] : j \in 1..Len(done)}
                     \cup {[type |-> "halfway", at |-> half[j]] : j \in 1..Len(half)}
                     \cup Step(b, [type |-> "tick", at |-> 0, from |-> timers])
        /\ \E date \in 0..MaxNow :
              /\ Clock(date)
              /\ done = <<>> => date = now
              /\ now' = date
              /\ handlers' = handlers \o
                     [j \in 1..Len(done) |->
                         [entry |-> historyEntry(timers[done[j]], date),
                          pc |-> "get", got |-> <<>>]]
        /\ runs' = IF ~b.trackRuns THEN runs
                   ELSE [i \in 1..Len(runs) |->
                           [c |-> IF Completes(timers[i])
                                  THEN Bump(runs[i].c) ELSE runs[i].c,
                            h |-> IF Halfway(timers[i])
                                  THEN Bump(runs[i].h) ELSE runs[i].h]]
        /\ UNCHANGED <<rendered, stored, writes, lastReq, loadPc, loadBuf,
                       history, recorded, restarts>>

\* React renders the committed state: the handlers close over it
Render(b) ==
    /\ Ready(b)
    /\ rendered # timers
    /\ rendered' = timers
    /\ events' = {}
    /\ UNCHANGED <<timers, now, stored, writes, lastReq, loadPc, loadBuf,
                   history, handlers, recorded, runs, restarts>>

(***************************************************************************)
(* handleAddTimer, with the form's fields as inputs.                       *)
(***************************************************************************)
Invalid(name, duration, category) ==
    name = "" \/ duration = <<>> \/ category = ""

newTimerOf(date, name, duration, category, halfwayAlert) ==
    [id |-> ToString(date),
     name |-> name,
     duration |-> parseInt(duration),
     remainingTime |-> parseInt(duration),
     category |-> category,
     status |-> "idle",
     halfwayAlert |-> halfwayAlert]

handleAddTimerRejected(b) ==
    /\ Ready(b)
    /\ \E name \in b.names, duration \in b.durations, category \in b.categories :
           Invalid(name, duration, category)
    /\ events' = {[type |-> "error", at |-> 0]}
    /\ UNCHANGED <<timers, rendered, now, stored, writes, lastReq, loadPc, loadBuf,
                   history, handlers, recorded, runs, restarts>>

handleAddTimer(b) ==
    \E name \in b.names, duration \in b.durations, category \in b.categories,
       halfwayAlert \in b.alerts, date \in 0..MaxNow :
        LET timer == newTimerOf(date, name, duration, category, halfwayAlert)
            updatedTimers == Append(rendered, timer)
        IN  /\ Ready(b)
            /\ ~Invalid(name, duration, category)
            /\ Clock(date)
            /\ Len(rendered) < b.timers
            /\ now' = date
            /\ timers' = updatedTimers
            /\ rendered' = updatedTimers
            /\ saveTimers(updatedTimers, b)
            /\ events' = {[type |-> "add", at |-> Len(updatedTimers),
                           name |-> name, duration |-> duration, category |-> category]}
            /\ runs' = IF b.trackRuns
                       THEN Append(SubSeq(runs, 1, Len(rendered)), NoRun)
                       ELSE runs
            /\ UNCHANGED <<stored, loadPc, loadBuf, history, handlers,
                           recorded, restarts>>

(***************************************************************************)
(* handleTimerAction, reached through the three buttons of a rendered      *)
(* timer; the start and pause buttons are disabled by the timer's status.  *)
(***************************************************************************)
\* reset without halfwayAlertTriggered: false
timerActionCaseLatch(timer, action) ==
    CASE action = "start" -> [timer EXCEPT !.status = "running"]
      [] action = "pause" -> [timer EXCEPT !.status = "paused"]
      [] action = "reset" -> [timer EXCEPT !.remainingTime = timer.duration,
                                           !.status = "idle"]
      [] OTHER -> timer

\* reset with the two fields swapped: duration set from remainingTime
timerActionCaseSwap(timer, action) ==
    CASE action = "start" -> [timer EXCEPT !.status = "running"]
      [] action = "pause" -> [timer EXCEPT !.status = "paused"]
      [] action = "reset" ->
            WithTriggered([timer EXCEPT !.duration = timer.remainingTime,
                                        !.status = "idle"], FALSE)
      [] OTHER -> timer

timerActionCase(timer, action) ==
    CASE action = "start" -> [timer EXCEPT !.status = "running"]
      [] action = "pause" -> [timer EXCEPT !.status = "paused"]
      [] action = "reset" ->
            WithTriggered([timer EXCEPT !.remainingTime = timer.duration,
                                        !.status = "idle"], FALSE)
      [] OTHER -> timer

startDisabled(timer) == timer.status = "running" \/ timer.status = "completed"

pauseDisabled(timer) == timer.status # "running"

ButtonEnabled(timer, action) ==
    CASE action = "start" -> ~startDisabled(timer)
      [] action = "pause" -> ~pauseDisabled(timer)
      [] OTHER -> TRUE

\* the id test inverted
timerActionOthers(ts, timerId, action) ==
    MapSeq(LAMBDA timer : IF timer.id = timerId THEN timer
                          ELSE timerActionCase(timer, action), ts)

timerActionMap(ts, timerId, action) ==
    MapSeq(LAMBDA timer : IF timer.id # timerId THEN timer
                          ELSE timerActionCase(timer, action), ts)

handleTimerAction(b) ==
    \E i \in 1..Len(rendered), action \in Actions :
        LET timerId == rendered[i].id
            updatedTimers == timerActionMap(rendered, timerId, action)
        IN  /\ Ready(b)
            /\ ButtonEnabled(rendered[i], action)
            /\ timers' = updatedTimers
            /\ rendered' = updatedTimers
            /\ saveTimers(updatedTimers, b)
            /\ events' = Step(b, [type |-> "timer", at |-> i, id |-> timerId,
                                  action |-> action, from |-> rendered])
            /\ runs' = IF action = "reset"
                       THEN [j \in 1..Len(runs) |->
                               IF rendered[j].id = timerId THEN NoRun ELSE runs[j]]
                       ELSE runs
            /\ UNCHANGED <<now, stored, loadPc, loadBuf, history, handlers,
                           recorded, restarts>>

(***************************************************************************)
(* handleCategoryAction, reached through the three buttons of a rendered   *)
(* category header; these buttons are never disabled.                      *)
(***************************************************************************)
categoryActionCase(timer, action) ==
    CASE action = "start" -> [timer EXCEPT !.status = "running"]
      [] action = "pause" -> [timer EXCEPT !.status = "paused"]
      [] action = "reset" ->
            WithTriggered([timer EXCEPT !.remainingTime = timer.duration,
                                        !.status = "idle"], FALSE)
      [] OTHER -> timer

\* the category test left out
categoryActionAll(ts, category, action) ==
    MapSeq(LAMBDA timer : categoryActionCase(timer, action), ts)

categoryActionMap(ts, category, action) ==
    MapSeq(LAMBDA timer : IF timer.category # category THEN timer
                          ELSE categoryActionCase(timer, action), ts)

handleCategoryAction(b) ==
    \E i \in 1..Len(rendered), action \in Actions :
        LET category == rendered[i].category
            updatedTimers == categoryActionMap(rendered, category, action)
        IN  /\ Ready(b)
            /\ timers' = updatedTimers
            /\ rendered' = updatedTimers
            /\ saveTimers(updatedTimers, b)
            /\ events' = Step(b, [type |-> "category", at |-> i, category |-> category,
                                  action |-> action, from |-> rendered])
            /\ runs' = IF action = "reset"
                       THEN [j \in 1..Len(runs) |->
                               IF rendered[j].category = category THEN NoRun
                               ELSE runs[j]]
                       ELSE runs
            /\ UNCHANGED <<now, stored, loadPc, loadBuf, history, handlers,
                           recorded, restarts>>

(***************************************************************************)
(* groupTimersByCategory: timers.reduce over an object literal {}.  Reading *)
(* groups[category] finds the object's own property or, when it has none   *)
(* of that name, the property Object.prototype gives every object; such a  *)
(* value is truthy and no array, so the push on it throws a TypeError.     *)
(***************************************************************************)
ObjectPrototype ==
    {"constructor", "__proto__", "toString", "toLocaleString", "valueOf",
     "hasOwnProperty", "isPrototypeOf", "propertyIsEnumerable"}

NoGroups == [threw |-> FALSE, groups |-> [category \in {} |-> <<>>]]

\* one call of the reducer; after a throw nothing more is done
groupReducer(acc, timer) ==
    LET category == timer.category
    IN  IF acc.threw THEN acc
        ELSE IF category \in DOMAIN acc.groups
        THEN [acc EXCEPT !.groups[category] = Append(@, timer)]
        ELSE IF category \in ObjectPrototype
        THEN [acc EXCEPT !.threw = TRUE]
        ELSE [acc EXCEPT !.groups = @ @@ (category :> <<timer>>)]

RECURSIVE reduce(_, _, _)
reduce(ts, i, acc) ==
    IF i > Len(ts) THEN acc ELSE reduce(ts, i + 1, groupReducer(acc, ts[i]))

groupTimersByCategory(ts) == reduce(ts, 1, NoGroups)

(***************************************************************************)
(* AsyncStorage finishing a setItem('timers', ...) request: the requests   *)
(* are independent promises, any of them may finish next, and it may fail  *)
(* (saveTimers catches and logs).                                          *)
(***************************************************************************)
SetItemDone(i, ok) ==
    /\ stored' = IF ok THEN Item(writes[i]) ELSE stored
    /\ writes' = Remove(writes, i)
    /\ lastReq' = IF lastReq.st = "none" THEN lastReq
                  ELSE IF i = Len(writes) /\ lastReq.st = "inflight"
                  THEN [lastReq EXCEPT !.st = IF ok THEN "ok" ELSE "failed",
                                       !.unsynced = ~ok]
                  ELSE [lastReq EXCEPT !.unsynced = ~ok]
    /\ events' = {}
    /\ UNCHANGED <<timers, rendered, now, loadPc, loadBuf, history, handlers,
                   recorded, runs, restarts>>

SaveResolved == \E i \in 1..Len(writes) : SetItemDone(i, TRUE)

SaveRejected == \E i \in 1..Len(writes) : SetItemDone(i, FALSE)

(***************************************************************************)
(* loadTimers: getItem, then setTimers(JSON.parse(...)) when an item came. *)
(***************************************************************************)
LoadGet ==
    /\ loadPc = "get"
    /\ loadPc' = "got"
    /\ loadBuf' = stored
    /\ events' = {}
    /\ UNCHANGED <<timers, rendered, now, stored, writes, lastReq, history,
                   handlers, recorded, runs, restarts>>

LoadRejected ==
    /\ loadPc = "get"
    /\ loadPc' = "done"
    /\ events' = {}
    /\ UNCHANGED <<timers, rendered, now, stored, writes, lastReq, loadBuf, history,
                   handlers, recorded, runs, restarts>>

LoadSet ==
    /\ loadPc = "got"
    /\ loadPc' = "done"
    /\ loadBuf' = NoItem
    /\ timers' = IF loadBuf.present THEN Parse(loadBuf.val) ELSE timers
    /\ events' = {}
    /\ UNCHANGED <<rendered, now, stored, writes, lastReq, history, handlers,
                   recorded, runs, restarts>>

(***************************************************************************)
(* handleTimerComplete after its call: getItem('timerHistory'), then       *)
(* setItem of the list read plus the entry, then the completion alert.     *)
(***************************************************************************)
HistoryGet ==
    \E i \in 1..Len(handlers) :
        /\ handlers[i].pc = "get"
        /\ handlers' = [handlers EXCEPT ![i] =
               [@ EXCEPT !.pc = "set",
                         !.got = IF history.present THEN history.val ELSE <<>>]]
        /\ events' = {}
        /\ UNCHANGED <<timers, rendered, now, stored, writes, lastReq, loadPc, loadBuf,
                       history, recorded, runs, restarts>>

HistorySet ==
    \E i \in 1..Len(handlers) :
        /\ handlers[i].pc = "set"
        /\ history' = Item(Append(handlers[i].got, handlers[i].entry))
        /\ recorded' = Append(recorded, handlers[i].entry)
        /\ handlers' = Remove(handlers, i)
        /\ events' = {[type |-> "completeAlert", at |-> 0]}
        /\ UNCHANGED <<timers, rendered, now, stored, writes, lastReq, loadPc, loadBuf,
                       runs, restarts>>

HistoryRejected ==
    \E i \in 1..Len(handlers) :
        /\ handlers' = Remove(handlers, i)
        /\ events' = {[type |-> "completeAlert", at |-> 0]}
        /\ UNCHANGED <<timers, rendered, now, stored, writes, lastReq, loadPc, loadBuf,
                       history, recorded, runs, restarts>>

(***************************************************************************)
(* The application is closed and opened again: the component state is      *)
(* gone, the two storage items stay, requests still in flight are lost.    *)
(***************************************************************************)
Restart(b) ==
    /\ Ready(b)
    /\ restarts < b.restarts
    /\ restarts' = restarts + 1
    /\ timers' = <<>>
    /\ rendered' = <<>>
    /\ events' = {}
    /\ writes' = <<>>
    /\ lastReq' = [st |-> "none", val |-> <<>>, unsynced |-> FALSE]
    /\ loadPc' = "get"
    /\ loadBuf' = NoItem
    /\ handlers' = <<>>
    /\ runs' = <<>>
    /\ UNCHANGED <<now, stored, history, recorded>>

(***************************************************************************)
(* Specifications.  All run the same actions; they differ in the texts     *)
(* typed into the form, in the bounds and in what AsyncStorage answers, so *)
(* that each explores the part of the program its properties are about.    *)
(* No action of the engine reads the storage except loadTimers, so what    *)
(* the storage answers changes nothing in the engine's own steps.          *)
(***************************************************************************)
Valid == {"n"}

\* Spec: the engine with two timers in two categories, durations 1 and 3;
\* AsyncStorage is unavailable: every request is rejected (and caught)
\* before the next event is handled.
Engine ==
    [timers |-> EngineTimers, inflight |-> EngineInflight, history |-> EngineHistory,
     restarts |-> 0, trackRuns |-> FALSE, trackReq |-> FALSE, trackSteps |-> FALSE,
     saveFirst |-> TRUE, logFirst |-> TRUE,
     names |-> Valid, durations |-> {<<"1">>, <<"3">>}, categories |-> {"A", "B"},
     alerts |-> BOOLEAN]

Next ==
    \/ Tick(Engine)
    \/ Render(Engine)
    \/ handleAddTimer(Engine)
    \/ handleTimerAction(Engine)
    \/ handleCategoryAction(Engine)
    \/ SaveRejected
    \/ HistoryRejected

Spec == Init /\ [][Next]_vars

\* SpecRuns: the engine as in Spec with one duration and one category,
\* counting the completion calls and the halfway alerts of each timer since
\* its last reset.
Runs ==
    [Engine EXCEPT !.trackRuns = TRUE, !.durations = {<<"3">>},
                   !.categories = {"A"}]

NextRuns ==
    \/ Tick(Runs)
    \/ Render(Runs)
    \/ handleAddTimer(Runs)
    \/ handleTimerAction(Runs)
    \/ handleCategoryAction(Runs)
    \/ SaveRejected
    \/ HistoryRejected

SpecRuns == Init /\ [][NextRuns]_vars

\* SpecForm: one timer, every text of the form, each tick and action recorded
\* with the snapshot it read.
Form ==
    [timers |-> FormTimers, inflight |-> FormInflight, history |-> FormHistory,
     restarts |-> 0, trackRuns |-> FALSE, trackReq |-> FALSE, trackSteps |-> TRUE,
     saveFirst |-> TRUE, logFirst |-> TRUE,
     names |-> Names, durations |-> DurationTexts, categories |-> Categories,
     alerts |-> BOOLEAN]

NextForm ==
    \/ Tick(Form)
    \/ Render(Form)
    \/ handleAddTimerRejected(Form)
    \/ handleAddTimer(Form)
    \/ handleTimerAction(Form)
    \/ handleCategoryAction(Form)
    \/ SaveRejected
    \/ HistoryRejected

SpecForm == Init /\ [][NextForm]_vars

\* SpecFormFair: SpecForm with what the runtime schedules by itself: the
\* interval fires every second whatever the user does, so a tick that can
\* be taken again and again is taken; React renders a committed state, and
\* AsyncStorage answers every request.
FairForm ==
    /\ SF_vars(Tick(Form))
    /\ WF_vars(Render(Form))
    /\ WF_vars(SaveRejected)
    /\ WF_vars(HistoryRejected)

SpecFormFair == SpecForm /\ FairForm

\* SpecStore: one timer of duration 1 and a working item 'timers': AsyncStorage
\* answers each request for it at any later time, or fails; the history
\* requests are rejected; the application may be relaunched.
Store ==
    [timers |-> StoreTimers, inflight |-> StoreInflight, history |-> StoreHistory,
     restarts |-> StoreRestarts, trackRuns |-> FALSE, trackReq |-> TRUE,
     trackSteps |-> FALSE,
     saveFirst |-> FALSE, logFirst |-> TRUE,
     names |-> Valid, durations |-> {<<"1">>}, categories |-> {"A"},
     alerts |-> {FALSE}]

NextStore ==
    \/ Tick(Store)
    \/ Render(Store)
    \/ handleAddTimer(Store)
    \/ handleTimerAction(Store)
    \/ handleCategoryAction(Store)
    \/ Restart(Store)
    \/ SaveResolved
    \/ SaveRejected
    \/ LoadGet
    \/ LoadRejected
    \/ LoadSet
    \/ HistoryRejected

SpecStore == Init /\ [][NextStore]_vars

\* SpecLog: two timers of duration 1 and a working item 'timerHistory': the
\* requests of handleTimerComplete are answered at any later time, or fail;
\* the requests for the item 'timers' are rejected.
Log ==
    [timers |-> LogTimers, inflight |-> LogInflight, history |-> LogHistory,
     restarts |-> 0, trackRuns |-> FALSE, trackReq |-> FALSE, trackSteps |-> FALSE,
     saveFirst |-> TRUE, logFirst |-> FALSE,
     names |-> Valid, durations |-> {<<"1">>}, categories |-> {"A"},
     alerts |-> {FALSE}]

NextLog ==
    \/ Tick(Log)
    \/ Render(Log)
    \/ handleAddTimer(Log)
    \/ handleTimerAction(Log)
    \/ handleCategoryAction(Log)
    \/ SaveRejected
    \/ HistoryGet
    \/ HistorySet
    \/ HistoryRejected

SpecLog == Init /\ [][NextLog]_vars

\* SpecSteps: the engine as in Spec with durations 1 and 4 and the halfway
\* alert enabled, each tick and action recorded with the snapshot it read.
Steps ==
    [timers |-> StepsTimers, inflight |-> StepsInflight, history |-> StepsHistory,
     restarts |-> 0, trackRuns |-> FALSE, trackReq |-> FALSE, trackSteps |-> TRUE,
     saveFirst |-> TRUE, logFirst |-> TRUE,
     names |-> Valid, durations |-> {<<"1">>, <<"4">>}, categories |-> {"A", "B"},
     alerts |-> {TRUE}]

NextSteps ==
    \/ Tick(Steps)
    \/ Render(Steps)
    \/ handleAddTimer(Steps)
    \/ handleTimerAction(Steps)
    \/ handleCategoryAction(Steps)
    \/ SaveRejected
    \/ HistoryRejected

SpecSteps == Init /\ [][NextSteps]_vars

(***************************************************************************)
(* Properties.                                                             *)
(***************************************************************************)
\* 0 <= remainingTime <= duration, as JavaScript compares (NaN fails both)
InRange(timer) ==
    /\ ToNumber(timer.remainingTime).k = "num"
    /\ ToNumber(timer.duration).k = "num"
    /\ 0 <= ToNumber(timer.remainingTime).v
    /\ ToNumber(timer.remainingTime).v <= ToNumber(timer.duration).v

\* the positions a step keeps: the timers both snapshots hold
Kept == 1..(IF Len(timers) < Len(timers') THEN Len(timers) ELSE Len(timers'))

historyList == IF history.present THEN history.val ELSE <<>>

Count(e, s) == Cardinality({j \in 1..Len(s) : s[j] = e})

\* C1: in every reachable state every timer of the snapshot has
\* 0 <= remainingTime <= duration.
C1_RemainingInRange ==
    \A i \in 1..Len(timers) : InRange(timers[i])

\* C2: between its creation or latest reset and its next reset a timer gets
\* exactly one completion call, at the tick that brings remainingTime to 0:
\* never a second one.
C2_OneCompletionPerRun ==
    \A i \in 1..Len(runs) : runs[i].c <= 1

\* C3: a completed timer leaves completed only through reset: no step taken
\* from the rendered snapshot moves a completed timer to running.
C3_CompletedOnlyReset ==
    [][rendered = timers =>
          \A i \in Kept : timers[i].status = "completed"
                          => timers'[i].status # "running"]_vars

\* C4: pause has no effect on a timer that is not running: no step taken from
\* the rendered snapshot moves an idle or completed timer to paused.
C4_PauseOnlyRunning ==
    [][rendered = timers =>
          \A i \in Kept : timers[i].status \in {"idle", "completed"}
                          => timers'[i].status # "paused"]_vars

\* C5: between two consecutive resets of a timer the halfway alert is emitted
\* (halfwayAlertTriggered goes from false to true) at most once.
C5_OneHalfwayPerRun ==
    \A i \in 1..Len(runs) : runs[i].h <= 1

\* what a single-timer or category action makes of the snapshot ts
ActionResults(ts) ==
    {timerActionMap(ts, ts[i].id, a) : i \in 1..Len(ts), a \in Actions}
    \cup {categoryActionMap(ts, ts[i].category, a) : i \in 1..Len(ts), a \in Actions}

\* C6: ticks and actions are linearized: every action that commits a snapshot
\* (and requests its save) has applied a create or an action to the snapshot
\* committed by the previous step, so no committed tick is overwritten.
C6_Linearized ==
    [][Len(writes') > Len(writes)
          => \/ timers' \in ActionResults(timers)
             \/ /\ Len(timers') = Len(timers) + 1
                /\ SubSeq(timers', 1, Len(timers)) = timers]_vars

\* C7: the timer list is written on every mutation of the snapshot, ticks
\* included: every tick or action that changes the snapshot requests a write
\* of the new snapshot.
C7_WrittenOnEveryMutation ==
    [][(timers' # timers /\ loadPc' = loadPc /\ restarts' = restarts)
          => /\ Len(writes') > Len(writes)
             /\ writes'[Len(writes')] = Stringify(timers')]_vars

\* C8: the history log is append-only under concurrent completions: the entry
\* of every handleTimerComplete call whose setItem succeeded is in the stored
\* history, as many times as it was stored.
C8_HistoryKeepsEveryEntry ==
    \A j \in 1..Len(recorded) :
        Count(recorded[j], historyList) >= Count(recorded[j], recorded)

\* C9: the writes of the snapshot are serialized in commit order: once no
\* write is in flight and the most recent save request has succeeded, the
\* stored timer list is the snapshot of that request.
C9_LatestSnapshotStored ==
    (writes = <<>> /\ lastReq.st = "ok")
        => (stored.present /\ stored.val = lastReq.val)

\* C10: creating a timer fails with no state change when the name or the
\* category is empty or the duration text does not parse to a number > 0:
\* a timer is added (and its save requested) only for a valid input.
C10_InvalidInputRejected ==
    \A e \in events :
        e.type = "add"
            => /\ e.name # ""
               /\ e.category # ""
               /\ parseInt(e.duration).k = "num"
               /\ parseInt(e.duration).v > 0

TimerFields ==
    {"id", "name", "duration", "remainingTime", "category", "status",
     "halfwayAlert", "halfwayAlertTriggered"}

\* the fields fs are the same in both timers, an absent field staying absent
SameFields(before, after, fs) ==
    \A f \in fs :
        /\ f \in DOMAIN before <=> f \in DOMAIN after
        /\ f \in DOMAIN before => after[f] = before[f]

\* the action table, field by field
ResetEffect(before, after) ==
    /\ after.remainingTime = before.duration
    /\ after.remainingTime = after.duration
    /\ after.status = "idle"
    /\ "halfwayAlertTriggered" \in DOMAIN after
    /\ after.halfwayAlertTriggered = FALSE

TableEffect(before, after, action) ==
    CASE action = "start" ->
            /\ after.status = "running"
            /\ SameFields(before, after, TimerFields \ {"status"})
      [] action = "pause" ->
            /\ after.status = "paused"
            /\ SameFields(before, after, TimerFields \ {"status"})
      [] action = "reset" ->
            /\ ResetEffect(before, after)
            /\ SameFields(before, after,
                          {"id", "name", "duration", "category", "halfwayAlert"})

\* C11: a category action on category C commits the snapshot it read with
\* every timer of category C changed as the action table says, whatever its
\* status was, every timer of another category unchanged in all fields, and
\* the number and order of the timers kept.
C11_CategoryActionFrame ==
    \A e \in events :
        e.type = "category"
            => /\ Len(timers) = Len(e.from)
               /\ \A i \in 1..Len(e.from) :
                     IF e.from[i].category = e.category
                     THEN TableEffect(e.from[i], timers[i], e.action)
                     ELSE timers[i] = e.from[i]

\* a category start that made a completed timer of the category running and
\* left a paused timer of the other category as it was
C11_Witness ==
    \E e \in events :
        /\ e.type = "category"
        /\ e.action = "start"
        /\ Len(timers) = 2
        /\ \E i, j \in 1..Len(e.from) :
              /\ e.from[i].category = e.category
              /\ e.from[i].status = "completed"
              /\ timers[i].status = "running"
              /\ e.from[j].category # e.category
              /\ e.from[j].status = "paused"
              /\ timers[j] = e.from[j]

\* the timers of the snapshot e.from that the action e is applied to
Target(e, i) ==
    CASE e.type = "timer" -> e.from[i].id = e.id
      [] e.type = "category" -> e.from[i].category = e.category
      [] OTHER -> FALSE

\* C12: a reset, of one timer or of a category, leaves each timer it is
\* applied to with remainingTime equal to its duration, status idle and
\* halfwayAlertTriggered false, whatever its status and remainingTime were.
C12_ResetRestores ==
    \A e \in events :
        (e.type \in {"timer", "category"} /\ e.action = "reset")
            => \A i \in 1..Len(e.from) :
                  Target(e, i) => /\ i <= Len(timers)
                                  /\ ResetEffect(e.from[i], timers[i])

\* the reset of a completed timer whose halfway alert had been given
C12_Witness ==
    \E e \in events :
        /\ e.type = "timer"
        /\ e.action = "reset"
        /\ e.from[e.at].status = "completed"
        /\ e.from[e.at].remainingTime = Num(0)
        /\ Triggered(e.from[e.at])
        /\ timers[e.at].status = "idle"
        /\ timers[e.at].remainingTime = Num(4)
        /\ ~Triggered(timers[e.at])

\* C13: on every tick each running timer's remainingTime goes down by
\* exactly 1, until it is 0: it is a number, not below 0, and the tick leaves
\* it one lower, or at 0 when it was 0.
C13_TickDecrementsByOne ==
    \A e \in events :
        e.type = "tick"
            => \A i \in 1..Len(e.from) :
                  e.from[i].status = "running"
                      => /\ e.from[i].remainingTime.k = "num"
                         /\ e.from[i].remainingTime.v >= 0
                         /\ timers[i].remainingTime =
                                Num(IF e.from[i].remainingTime.v = 0 THEN 0
                                    ELSE e.from[i].remainingTime.v - 1)

\* the tick e emitted the halfway alert of the timer at position i
HalfwayAt(i) == [type |-> "halfway", at |-> i] \in events

\* the tick takes the timer from above half its duration to half or below
CrossesHalf(timer) ==
    /\ timer.remainingTime.k = "num"
    /\ timer.duration.k = "num"
    /\ 2 * timer.remainingTime.v > timer.duration.v
    /\ 2 * (timer.remainingTime.v - 1) <= timer.duration.v

Ids(ts) == {ts[i].id : i \in 1..Len(ts)}

\* C15: a timer is never deleted: while the application runs, every id of
\* the snapshot is still in the snapshot after the next step, and every timer
\* list handed to storage after that holds it.
C15_NeverDeleted ==
    [][restarts' = restarts
          => /\ Ids(timers) \subseteq Ids(timers')
             /\ Len(writes') > Len(writes)
                   => Ids(timers) \subseteq Ids(writes'[Len(writes')])]_vars

\* C16: no two timers of the snapshot have the same id.
C16_UniqueIds ==
    \A i, j \in 1..Len(timers) : timers[i].id = timers[j].id => i = j

\* the tick gave the completion call of the timer at position i
CompleteAt(i) == [type |-> "complete", at |-> i] \in events

\* C17: in one tick no timer gets both a completion call and a halfway
\* alert: a running timer with remainingTime - 1 <= 0 is completed, with
\* remainingTime 0 and halfwayAlertTriggered as it was, and gets no halfway
\* alert, also when the halfway condition holds.
C17_CompletionExcludesHalfway ==
    \A e \in events :
        e.type = "tick"
            => \A i \in 1..Len(e.from) :
                  /\ ~(CompleteAt(i) /\ HalfwayAt(i))
                  /\ (e.from[i].status = "running"
                      /\ JsLeInt(JsMinus(e.from[i].remainingTime, 1), 0))
                        => /\ CompleteAt(i)
                           /\ ~HalfwayAt(i)
                           /\ timers[i].status = "completed"
                           /\ timers[i].remainingTime = Num(0)
                           /\ Triggered(timers[i]) = Triggered(e.from[i])

\* the completion of a timer of duration 1 with the halfway alert enabled and
\* not yet given: the halfway condition holds at the tick that completes it
C17_Witness ==
    \E e \in events :
        /\ e.type = "tick"
        /\ \E i \in 1..Len(e.from) :
              /\ CompleteAt(i)
              /\ e.from[i].status = "running"
              /\ e.from[i].halfwayAlert
              /\ ~Triggered(e.from[i])
              /\ JsLeHalf(JsMinus(e.from[i].remainingTime, 1), e.from[i].duration)
              /\ timers[i].status = "completed"

\* C18: a tick leaves every timer that is idle, paused or completed
\* unchanged in all fields, gives no event for it, and keeps the number and
\* the order of the timers.
C18_TickFrame ==
    \A e \in events :
        e.type = "tick"
            => /\ Len(timers) = Len(e.from)
               /\ \A i \in 1..Len(e.from) :
                     /\ timers[i].id = e.from[i].id
                     /\ e.from[i].status # "running"
                           => /\ timers[i] = e.from[i]
                              /\ ~CompleteAt(i)
                              /\ ~HalfwayAt(i)

\* a tick that moved a running timer and left a paused one, stopped at
\* remainingTime 3 of 4, as it was
C18_Witness ==
    \E e \in events :
        /\ e.type = "tick"
        /\ \E i, j \in 1..Len(e.from) :
              /\ e.from[i].status = "running"
              /\ timers[i] # e.from[i]
              /\ e.from[j].status = "paused"
              /\ e.from[j].remainingTime = Num(3)
              /\ timers[j] = e.from[j]

\* C19: a single-timer action on id T commits the snapshot it read with the
\* timer of id T changed as the action table says, every timer of another id
\* unchanged in all fields, and the number and order of the timers kept.
C19_TimerActionFrame ==
    \A e \in events :
        e.type = "timer"
            => /\ Len(timers) = Len(e.from)
               /\ e.from[e.at].id = e.id
               /\ \A i \in 1..Len(e.from) :
                     IF e.from[i].id = e.id
                     THEN TableEffect(e.from[i], timers[i], e.action)
                     ELSE timers[i] = e.from[i]

\* the pause of a running timer, next to a running timer of another id that
\* stays as it was
C19_Witness ==
    \E e \in events :
        /\ e.type = "timer"
        /\ e.action = "pause"
        /\ e.from[e.at].status = "running"
        /\ timers[e.at].status = "paused"
        /\ \E j \in 1..Len(e.from) :
              /\ e.from[j].id # e.id
              /\ e.from[j].status = "running"
              /\ timers[j] = e.from[j]

\* C20: in every reachable state a timer whose status is completed has
\* remainingTime 0.
C20_CompletedAtZero ==
    \A i \in 1..Len(timers) :
        timers[i].status = "completed" => timers[i].remainingTime = Num(0)

\* a timer of duration 3 completed by a tick
C20_Witness ==
    \E i \in 1..Len(timers) :
        /\ CompleteAt(i)
        /\ timers[i].status = "completed"
        /\ timers[i].duration = Num(3)
        /\ timers[i].remainingTime = Num(0)

\* the timers of ts whose category is c, in the order of ts
RECURSIVE OfCategory(_, _)
OfCategory(ts, c) ==
    IF ts = <<>> THEN <<>>
    ELSE (IF Head(ts).category = c THEN <<Head(ts)>> ELSE <<>>)
         \o OfCategory(Tail(ts), c)

\* C21: groupTimersByCategory partitions the rendered snapshot: it returns
\* one group for each category that has a timer, no other group, and the
\* group of a category is the timers of that category in the order of the
\* snapshot, so every timer is in exactly one group, the one of its category.
C21_GroupsPartition ==
    LET g == groupTimersByCategory(rendered)
    IN  /\ ~g.threw
        /\ DOMAIN g.groups = {rendered[i].category : i \in 1..Len(rendered)}
        /\ \A c \in DOMAIN g.groups :
              /\ g.groups[c] # <<>>
              /\ g.groups[c] = OfCategory(rendered, c)

\* C22 as stated: a failed write of the timer list leaves the in-memory
\* snapshot as it is, and the next write that succeeds stores the latest
\* in-memory snapshot.
C22_NextSuccessStoresLatest ==
    [][(Len(writes') < Len(writes) /\ restarts' = restarts)
          => /\ timers' = timers
             /\ (lastReq.unsynced /\ ~lastReq'.unsynced)
                   => stored' = Item(Stringify(timers'))]_vars

\* C22, amended: a failed write of the timer list leaves the in-memory
\* snapshot as it is; every write request carries the whole snapshot its action
\* commits, the latest in-memory snapshot at that moment; a write that succeeds
\* stores the snapshot of its own request and changes nothing in memory.
C22_FailedWriteKeepsSnapshot ==
    [][/\ (Len(writes') < Len(writes) /\ restarts' = restarts)
            => /\ timers' = timers
               /\ rendered' = rendered
               /\ stored' # stored
                     => \E i \in 1..Len(writes) : stored' = Item(writes[i])
       /\ Len(writes') > Len(writes)
            => writes'[Len(writes')] = Stringify(timers')]_vars

\* a write has failed and none has succeeded since: nothing is stored, the
\* timer is in memory, and the request of a later action, now in flight,
\* carries the snapshot in memory
C22_Witness ==
    /\ lastReq.unsynced
    /\ lastReq.st = "inflight"
    /\ Len(writes) = 1
    /\ writes[1] = Stringify(timers)
    /\ timers # <<>>
    /\ timers[1].status = "running"
    /\ ~stored.present

\* the fields given at creation
CreationFields == {"id", "name", "category", "duration", "halfwayAlert"}

\* C23: every tick, single-timer action and category action leaves the id,
\* name, category, duration and halfwayAlert of every timer of the snapshot
\* it read as they were, each timer staying at its position.
C23_CreationFieldsKept ==
    \A e \in events :
        e.type \in {"tick", "timer", "category"}
            => /\ Len(timers) = Len(e.from)
               /\ \A i \in 1..Len(e.from) :
                     SameFields(e.from[i], timers[i], CreationFields)

\* a single-timer reset that changed remainingTime and status of a timer of
\* duration 4 and left its creation fields
C23_Witness ==
    \E e \in events :
        /\ e.type = "timer"
        /\ e.action = "reset"
        /\ e.from[e.at].remainingTime = Num(1)
        /\ e.from[e.at].status = "paused"
        /\ timers[e.at].remainingTime = Num(4)
        /\ timers[e.at].duration = Num(4)
        /\ SameFields(e.from[e.at], timers[e.at], CreationFields)

\* C24: under fair ticking a timer that is running and is neither paused nor
\* reset afterwards eventually is completed: from every state in which the
\* timer at a position is running, a state is reached in which it no longer
\* is (completed by the tick, or paused or reset by the user).
C24_RunningCompletes ==
    \A i \in 1..FormTimers :
        (Len(timers) >= i /\ timers[i].status = "running")
            ~> (Len(timers) < i \/ timers[i].status # "running")

====
